---- MODULE Spec2Model ----
(***************************************************************************)
(* Model of src/Utils/HttpSagaObserverClient.js: the saga observer page.   *)
(* The page keeps a saga record, two observables, a newest-first log       *)
(* history and the colouring of the rendered diagram in step with a push   *)
(* stream and a one-time snapshot fetch started by a render-readiness      *)
(* poll.                                                                   *)
(***************************************************************************)
EXTENDS Integers, Sequences, FiniteSets, TLC

\* ------------------------------------------------------------------------
\* Bounds of the model
\* ------------------------------------------------------------------------
\* stream events the server emits after the page subscribed
MaxEvents == 2
\* log scopes the saga already produced before the page subscribed
MaxPre == 1
\* cap of the counter of issued snapshot fetches
MaxFetches == 2
\* stream events the server emits in PollSpec
MaxPollEvents == 1
\* direct invocations of highlightCurrentState in HighlightSpec
MaxHighlightCalls == 2
\* pointer and wheel events the pan/zoom handlers take
MaxInputs == 4

\* wheel events among them
MaxPanWheels == 1

\* pointer and wheel events of the zoom specification, and wheel events among them
MaxZoomInputs == 3

MaxWheels == 2

\* wheel events of a user who keeps turning the wheel at one place
MaxDeepWheels == 25

\* stream events next to the operator folding and unfolding scopes
MaxLogEvents == 2

\* stream events next to the command buttons
MaxCmdEvents == 1

\* pointer and wheel events next to the stream
MaxBothInputs == 1

\* stream events when some are malformed
MaxBadEvents == 2

\* ------------------------------------------------------------------------
\* JavaScript values
\* ------------------------------------------------------------------------
Null == [type |-> "null"]

Undefined == [type |-> "undefined"]

Str(s) == [type |-> "string", val |-> s]

Arr(items) == [type |-> "array", items |-> items]

\* ToBoolean of the values the page tests with !, ?: and ||
Truthy(v) ==
    CASE v.type = "null" -> FALSE
      [] v.type = "undefined" -> FALSE
      [] v.type = "string" -> v.val # ""
      [] OTHER -> TRUE

\* property read obj.f: a missing property reads as undefined
Get(obj, f) == IF f \in DOMAIN obj THEN obj[f] ELSE Undefined

RECURSIVE Reverse(_)
Reverse(s) == IF s = <<>> THEN <<>> ELSE Append(Reverse(Tail(s)), Head(s))

RECURSIVE Join(_)
Join(chars) == IF chars = <<>> THEN "" ELSE Head(chars) \o Join(Tail(chars))

\* the white space and line terminators String.prototype.trim strips, of the
\* characters a label of the model is written with
IsSpace(c) == c \in {" ", "\t", "\n", "\r", "\f", ""}

RECURSIVE TrimStart(_)
TrimStart(chars) ==
    IF chars # <<>> /\ IsSpace(Head(chars)) THEN TrimStart(Tail(chars)) ELSE chars

\* String.prototype.trim on a string given as its characters
Trim(chars) == Reverse(TrimStart(Reverse(TrimStart(chars))))

\* ------------------------------------------------------------------------
\* Numbers: IEEE 754 doubles. A number is (-1)^neg * m * 2^e, where m is a
\* natural number written in limbs of 15 bits, lowest first; a double has a
\* mantissa m of exactly 53 bits, or is zero. The exact sum and product of two
\* numbers are numbers of this form, and the arithmetic of the page is the
\* exact result rounded to the nearest double, ties to even.
\* ------------------------------------------------------------------------
LimbBits == 15

Base == 2^LimbBits

MantissaBits == 53

Abs(i) == IF i < 0 THEN -i ELSE i

RECURSIVE BTrim(_)
\* without the leading zero limbs
BTrim(a) == IF a # <<>> /\ a[Len(a)] = 0 THEN BTrim(SubSeq(a, 1, Len(a) - 1)) ELSE a

Limb(a, i) == IF i <= Len(a) THEN a[i] ELSE 0

RECURSIVE BFromInt(_)
BFromInt(n) == IF n = 0 THEN <<>> ELSE <<n % Base>> \o BFromInt(n \div Base)

RECURSIVE BAddFrom(_, _, _, _)
BAddFrom(a, b, i, carry) ==
    IF i > Len(a) /\ i > Len(b) THEN (IF carry = 0 THEN <<>> ELSE <<carry>>)
    ELSE LET x == Limb(a, i) + Limb(b, i) + carry
         IN  <<x % Base>> \o BAddFrom(a, b, i + 1, x \div Base)

BAdd(a, b) == BTrim(BAddFrom(a, b, 1, 0))

RECURSIVE BSubFrom(_, _, _, _)
BSubFrom(a, b, i, borrow) ==
    IF i > Len(a) THEN <<>>
    ELSE LET x == a[i] - Limb(b, i) - borrow
         IN  <<IF x < 0 THEN x + Base ELSE x>> \o BSubFrom(a, b, i + 1, IF x < 0 THEN 1 ELSE 0)

\* a - b where a >= b
BSub(a, b) == BTrim(BSubFrom(a, b, 1, 0))

RECURSIVE BCmpAt(_, _, _)
BCmpAt(a, b, i) ==
    IF i = 0 THEN 0
    ELSE IF a[i] # b[i] THEN (IF a[i] < b[i] THEN -1 ELSE 1)
    ELSE BCmpAt(a, b, i - 1)

\* -1, 0 or 1 as a is below, equal to or above b
BCmp(a, b) ==
    IF Len(a) # Len(b) THEN (IF Len(a) < Len(b) THEN -1 ELSE 1) ELSE BCmpAt(a, b, Len(a))

RECURSIVE BMulLimbFrom(_, _, _, _)
BMulLimbFrom(a, d, i, carry) ==
    IF i > Len(a) THEN (IF carry = 0 THEN <<>> ELSE <<carry>>)
    ELSE LET x == a[i] * d + carry
         IN  <<x % Base>> \o BMulLimbFrom(a, d, i + 1, x \div Base)

\* a * d for a limb d
BMulLimb(a, d) == BTrim(BMulLimbFrom(a, d, 1, 0))

RECURSIVE BMulFrom(_, _, _)
BMulFrom(a, b, j) ==
    IF j > Len(b) THEN <<>>
    ELSE BAddFrom(BMulLimbFrom(a, b[j], 1, 0), <<0>> \o BMulFrom(a, b, j + 1), 1, 0)

BMul(a, b) == BTrim(BMulFrom(a, b, 1))

\* a * 2^k
BShl(a, k) ==
    IF a = <<>> THEN <<>>
    ELSE [i \in 1..(k \div LimbBits) |-> 0] \o BMulLimb(a, 2^(k % LimbBits))

\* a \div 2^k
BShr(a, k) ==
    LET q == k \div LimbBits
        r == k % LimbBits
        n == Len(a) - q
    IN  IF n <= 0 THEN <<>>
        ELSE BTrim([i \in 1..n |-> (a[q + i] \div 2^r)
                                      + (Limb(a, q + i + 1) % 2^r) * 2^(LimbBits - r)])

\* a % 2^k
BLow(a, k) ==
    LET q == k \div LimbBits
        r == k % LimbBits
        n == IF Len(a) <= q THEN Len(a) ELSE q + 1
    IN  BTrim([i \in 1..n |-> IF i <= q THEN a[i] ELSE a[i] % 2^r])

RECURSIVE IntBits(_)
IntBits(n) == IF n = 0 THEN 0 ELSE 1 + IntBits(n \div 2)

\* the number of bits of a
BitLen(a) == IF a = <<>> THEN 0 ELSE LimbBits * (Len(a) - 1) + IntBits(a[Len(a)])

RECURSIVE BDivAt(_, _, _, _)
\* quotient and remainder of the limbs 1..i of a, behind the remainder rem of
\* the limbs above them, by a limb d
BDivAt(a, d, i, rem) ==
    IF i = 0 THEN [q |-> <<>>, r |-> rem]
    ELSE LET cur == rem * Base + a[i]
             rest == BDivAt(a, d, i - 1, cur % d)
         IN  [q |-> Append(rest.q, cur \div d), r |-> rest.r]

Zero == [neg |-> FALSE, m |-> <<>>, e |-> 0]

Dyadic(neg, m, e) == IF m = <<>> THEN Zero ELSE [neg |-> neg, m |-> m, e |-> e]

\* the exact product
XMul(x, y) == Dyadic(x.neg # y.neg, BMul(x.m, y.m), x.e + y.e)

\* the exact sum
XAdd(x, y) ==
    IF x.m = <<>> THEN y
    ELSE IF y.m = <<>> THEN x
    ELSE LET e == IF x.e < y.e THEN x.e ELSE y.e
             a == BShl(x.m, x.e - e)
             b == BShl(y.m, y.e - e)
             c == BCmp(a, b)
         IN  IF x.neg = y.neg THEN Dyadic(x.neg, BAdd(a, b), e)
             ELSE IF c = 0 THEN Zero
             ELSE IF c > 0 THEN Dyadic(x.neg, BSub(a, b), e)
             ELSE Dyadic(y.neg, BSub(b, a), e)

XNeg(x) == IF x.m = <<>> THEN x ELSE [x EXCEPT !.neg = ~@]

\* the exact difference
XSub(x, y) == XAdd(x, XNeg(y))

\* x < y
Less(x, y) == XSub(x, y).neg

\* the nearest double, ties to the even mantissa
Round(x) ==
    IF x.m = <<>> THEN Zero
    ELSE LET len == BitLen(x.m)
             k == len - MantissaBits
         IN  IF k <= 0 THEN [neg |-> x.neg, m |-> BShl(x.m, -k), e |-> x.e + k]
             ELSE LET q == BShr(x.m, k)
                      c == BCmp(BLow(x.m, k), BShl(<<1>>, k - 1))
                      up == c > 0 \/ (c = 0 /\ q[1] % 2 = 1)
                      r == IF up THEN BAdd(q, <<1>>) ELSE q
                  IN  IF BitLen(r) > MantissaBits
                      THEN [neg |-> x.neg, m |-> BShr(r, 1), e |-> x.e + k + 1]
                      ELSE [neg |-> x.neg, m |-> r, e |-> x.e + k]

\* the double of an integer
Num(i) == Round(Dyadic(i < 0, BFromInt(Abs(i)), 0))

\* a + b
Add(a, b) == Round(XAdd(a, b))

\* a - b
Sub(a, b) == Round(XSub(a, b))

\* a * b
Mul(a, b) == Round(XMul(a, b))

\* a / d for a double a and a whole number d of one limb: the quotient is
\* taken with guard bits and a sticky bit for the remainder, then rounded
DivInt(a, d) ==
    IF a.m = <<>> THEN Zero
    ELSE LET n == BShl(a.m, 2 * LimbBits)
             qr == BDivAt(n, d, Len(n), 0)
             q == BAdd(BShl(BTrim(qr.q), 1), IF qr.r = 0 THEN <<>> ELSE <<1>>)
         IN  Round(Dyadic(a.neg, q, a.e - 2 * LimbBits - 1))

\* the number literal n/d written in decimal, such as 1.1 for 11/10
Lit(n, d) == DivInt(Num(n), d)

\* the number literals of the source: 0, 1, 1.1 and 0.9
Literal0 == Num(0)

Literal1 == Num(1)

Literal1_1 == Lit(11, 10)

Literal0_9 == Lit(9, 10)

\* ------------------------------------------------------------------------
\* Log view model (createLogViewModel)
\* ------------------------------------------------------------------------
logLevels == [l \in 0..5 |-> <<"Trace", "Debug", "Info", "Warn", "Error", "Critical">>[l + 1]]

PadStart(n, width) ==
    IF width = 3 /\ n < 10 THEN "00" \o ToString(n)
    ELSE IF (width = 3 /\ n < 100) \/ (width = 2 /\ n < 10) THEN "0" \o ToString(n)
    ELSE ToString(n)

\* the locales and time zones of the browser the page runs in: whether the
\* locale writes the time on a 12-hour clock, and the zone's offset from UTC
Browsers == {[hour12 |-> TRUE, offsetMinutes |-> 0], [hour12 |-> FALSE, offsetMinutes |-> 0],
             [hour12 |-> FALSE, offsetMinutes |-> 60]}

DefaultBrowser == [hour12 |-> TRUE, offsetMinutes |-> 0]

VARIABLE browser    \* the locale and time zone of the browser

\* date.toLocaleTimeString(): h:mm:ss AM/PM on a 12-hour clock, HH:mm:ss on a
\* 24-hour clock, in local time
toLocaleTimeString(timestamp) ==
    LET secs == ((timestamp \div 1000) + 60 * browser.offsetMinutes) % 86400
        hours == secs \div 3600
        rest == ":" \o PadStart((secs \div 60) % 60, 2) \o ":" \o PadStart(secs % 60, 2)
    IN  IF browser.hour12
        THEN ToString(IF hours % 12 = 0 THEN 12 ELSE hours % 12) \o rest
                \o (IF hours < 12 THEN " AM" ELSE " PM")
        ELSE PadStart(hours, 2) \o rest

\* toLocaleTimeString() + '.' + the milliseconds padded to 3
formatTimestamp(timestamp) ==
    toLocaleTimeString(timestamp) \o "." \o PadStart(timestamp % 1000, 3)

createEntry(entry) ==
    [timestamp |-> entry.Timestamp,
     formattedOffset |-> ToString(entry.Offset) \o " ms",
     logLevel |-> entry.LogLevel,
     logLevelText |-> IF entry.LogLevel \in DOMAIN logLevels
                      THEN logLevels[entry.LogLevel] ELSE "Unknown",
     message |-> IF Truthy(entry.Message) THEN entry.Message.val ELSE ""]

createScope(scope) ==
    LET rawEntries == IF Truthy(scope.Entries) THEN scope.Entries.items ELSE <<>>
    IN  [messageId |-> scope.MessageId,
         messageType |-> IF Truthy(scope.MessageType) THEN scope.MessageType.val ELSE "Unknown",
         entries |-> [i \in 1..Len(rawEntries) |-> createEntry(rawEntries[i])],
         expanded |-> TRUE,
         formattedStart |-> formatTimestamp(scope.Started)]

\* loadLogData that forgets .reverse()
loadLogDataUnreversed(scopes, rawData) ==
    LET raw == IF Truthy(Get(rawData, "Scopes")) THEN rawData.Scopes.items ELSE <<>>
    IN  [i \in 1..Len(raw) |-> createScope(raw[i])]

\* loadLogData that puts the loaded scopes in front of the old content
loadLogDataKeeping(scopes, rawData) ==
    LET raw == IF Truthy(Get(rawData, "Scopes")) THEN rawData.Scopes.items ELSE <<>>
    IN  Reverse([i \in 1..Len(raw) |-> createScope(raw[i])]) \o scopes

\* loadLogData: the new content of logScopes (the old content is dropped)
loadLogData(scopes, rawData) ==
    LET raw == IF Truthy(Get(rawData, "Scopes")) THEN rawData.Scopes.items ELSE <<>>
        processedScopes == Reverse([i \in 1..Len(raw) |-> createScope(raw[i])])
    IN  processedScopes

\* appendLogScope with push in place of unshift
appendLogScopePush(scopes, rawData) ==
    IF ~Truthy(rawData) THEN scopes ELSE Append(scopes, createScope(rawData))

\* appendLogScope: the new content of logScopes
appendLogScope(scopes, rawData) ==
    IF ~Truthy(rawData) THEN scopes ELSE <<createScope(rawData)>> \o scopes

\* toggleScope(scope) on the scope at index i of the array
toggleScope(scopes, i) == [scopes EXCEPT ![i].expanded = ~@]

\* ------------------------------------------------------------------------
\* The rendered diagram (document.querySelectorAll('g.node rect' / 'span.nodeLabel'))
\* ------------------------------------------------------------------------
\* textContent of each node's label span, as characters
NodeLabel == << <<"A">>, <<" ", "\f", "B", "\r", "\n">>, <<"a">>, <<"A">> >>

Nodes == DOMAIN NodeLabel

\* the fill a rectangle has before any inline style is set
DefaultFill == "default"

\* geometry read by enablePanAndZoom
ClientWidth == 800

ClientHeight == 600

BBox == [x |-> 8, y |-> 8, width |-> 401, height |-> 200]

\* svg.getScreenCTM(): the svg's user space is scaled by a and d and moved by (e, f)
ScreenCTM == [a |-> 2, b |-> 0, c |-> 0, d |-> 2, e |-> 40, f |-> 10]

\* clientX, clientY of the pointer events
ClientPoints == {[clientX |-> 40, clientY |-> 10], [clientX |-> 240, clientY |-> 110],
                 [clientX |-> 141, clientY |-> 210]}

\* deltaY of the wheel events
WheelDeltas == {-100, 0, 100}

WheelEvents == {[clientX |-> q.clientX, clientY |-> q.clientY, deltaY |-> dy] :
                   q \in ClientPoints, dy \in WheelDeltas}

\* the g element's rendering before a transform attribute is set
IdentityTransform == [x |-> Literal0, y |-> Literal0, scale |-> Literal1]

\* ------------------------------------------------------------------------
\* The saga server behind GET state and the sse stream
\* ------------------------------------------------------------------------
\* the (CurrentState, LastError) pairs the saga takes: a state with a node, with
\* no error, an empty error and an error; a state without a node; no state
StateErrorPairs ==
    {<<Str("A"), Null>>, <<Str("A"), Str("")>>, <<Str("A"), Str("timeout")>>,
     <<Str("B"), Null>>, <<Str("B"), Str("timeout")>>,
     <<Str("X"), Str("timeout")>>, <<Null, Null>>}

\* the k-th log scope the saga produces
ScopeOf(k) ==
    [type |-> "object",
     MessageId |-> "m" \o ToString(k),
     MessageType |-> CASE k % 3 = 1 -> Str("OrderPlaced")
                       [] k % 3 = 2 -> Null
                       [] OTHER -> Str(""),
     Entries |-> CASE k % 3 = 1 -> Arr(<<[Timestamp |-> 1000, Offset |-> 0,
                                          LogLevel |-> 2, Message |-> Str("start")]>>)
                   [] k % 3 = 2 -> Null
                   [] OTHER -> Arr(<<[Timestamp |-> 3723042, Offset |-> 12,
                                      LogLevel |-> 99, Message |-> Null],
                                     [Timestamp |-> 3723050, Offset |-> 20,
                                      LogLevel |-> 4, Message |-> Str("boom")]>>),
     Started |-> CASE k % 3 = 1 -> 1000
                   [] k % 3 = 2 -> 61005
                   [] OTHER -> 3723042]

Payload(cs, le, scope) ==
    [type |-> "object", CurrentState |-> cs, LastError |-> le, LogScope |-> scope]

\* an sse message event: data is the JSON text of a payload
SseEvent(payload) == [data |-> [json |-> payload]]

\* JSON.parse of a well-formed text
JSONParse(text) == text.json

\* texts JSON.parse throws a SyntaxError on carry no value
IsJson(text) == "json" \in DOMAIN text

\* JSON.stringify of an object: properties whose value is undefined are left out
JSONStringify(value) ==
    [json |-> [f \in {g \in DOMAIN value : g = "type" \/ value[g] # Undefined} |->
                  value[f]]]

\* data of stream messages that are not the JSON text of an object
MalformedData == {[text |-> "{\"CurrentState\":"], [json |-> Null],
                  [json |-> [type |-> "number", val |-> 5]]}

\* window.location.pathname.split("/") of /sagas/acme/
PathSegments == <<"", "sagas", "acme", "">>

RECURSIVE ScopesIn(_)
\* the scopes carried by a sequence of events, oldest first
ScopesIn(events) ==
    IF events = <<>> THEN <<>>
    ELSE LET p == IF IsJson(Head(events).data) THEN JSONParse(Head(events).data) ELSE Null
         IN  (IF Truthy(Get(p, "LogScope")) THEN <<p.LogScope>> ELSE <<>>)
                 \o ScopesIn(Tail(events))

\* Log.Scopes of the saga after the server emitted events: oldest first
ServerLog(pre, events) == [i \in 1..pre |-> ScopeOf(i)] \o ScopesIn(events)

\* the saga on the server after it emitted events
ServerState(pre, events) ==
    IF events = <<>>
    THEN Payload(Str("A"), Null, IF pre > 0 THEN ScopeOf(pre) ELSE Null)
    ELSE JSONParse(events[Len(events)].data)

\* body of GET state
Snapshot(pre, events) ==
    LET s == ServerState(pre, events)
    IN  [type |-> "object", CurrentState |-> s.CurrentState, LastError |-> s.LastError,
         Log |-> [type |-> "object", Scopes |-> Arr(ServerLog(pre, events))],
         LogScope |-> s.LogScope]

NoResponse == [kind |-> "none"]

\* ------------------------------------------------------------------------
\* State
\* ------------------------------------------------------------------------
VARIABLES
    \* the server and the network
    sent,           \* sse events the server emitted since the page subscribed
    delivered,      \* how many of them the EventSource has dispatched
    preScopes,      \* scopes the saga produced before the page subscribed
    response,       \* the answer to GET state, once the server produced it
    svgRendered,    \* "#graph svg" exists with its nodes and a bounding box of width > 0
    \* App
    saga,           \* App.saga
    vmLastError,    \* viewModel.lastError()
    vmCurrentState, \* viewModel.currentState()
    logScopes,      \* viewModel.log.logScopes()
    rectFill,       \* style.fill of each node's rect
    pollActive,     \* the setInterval of pollForMermaidRender is registered
    fetchPc,        \* the async tick: "idle", "awaiting" (suspended on fetchState), "done"
    zoomContainer,  \* svg has a g.zoom-container
    transform,      \* enablePanAndZoom: transform
    isPanning,      \* enablePanAndZoom: isPanning
    startPoint,     \* enablePanAndZoom: startPoint
    lastRequest,    \* the POST publishMessage issued last and what became of it
    \* history
    lastPointer,    \* the last of mousedown / mouseup / mouseleave the handlers took
    gesture,        \* where the last mousedown found the pointer and the transform
    prevWheel,      \* the wheel event, if the last event the handlers took was one
    inputCount,     \* pointer and wheel events the handlers took
    wheelCount,     \* wheel events among them
    applied,        \* the records updateSagaState installed from the stream, in order
    loadedAt,       \* value of delivered when loadLogData ran, -1 before
    fetchCount,     \* calls of fetchState
    loadCount,      \* calls of loadLogData
    hlCalls         \* calls of highlightCurrentState

envVars == <<browser, sent, delivered, preScopes, response, svgRendered>>

syncVars == <<saga, vmLastError, vmCurrentState, logScopes, rectFill>>

pollVars == <<pollActive, fetchPc>>

panZoomVars == <<zoomContainer, transform, isPanning, startPoint>>

gestureVars == <<lastPointer, gesture, prevWheel, inputCount, wheelCount>>

cmdVars == <<lastRequest>>

uiVars == <<gestureVars, cmdVars>>

histVars == <<applied, loadedAt, fetchCount, loadCount, hlCalls>>

vars == <<envVars, syncVars, pollVars, panZoomVars, uiVars, histVars>>

NoGesture == [active |-> FALSE]

NoWheel == [kind |-> "none"]

NoRequest == [status |-> "none"]

InitWith(b) ==
    /\ browser = b
    /\ sent = <<>>
    /\ delivered = 0
    /\ preScopes \in 0..MaxPre
    /\ response = NoResponse
    /\ svgRendered = FALSE
    /\ saga = [type |-> "object"]
    /\ vmLastError = Undefined
    /\ vmCurrentState = Undefined
    /\ logScopes = <<>>
    /\ rectFill = [n \in Nodes |-> DefaultFill]
    /\ pollActive = TRUE
    /\ fetchPc = "idle"
    /\ zoomContainer = FALSE
    /\ transform = IdentityTransform
    /\ isPanning = FALSE
    /\ startPoint = [x |-> Literal0, y |-> Literal0]
    /\ lastRequest = NoRequest
    /\ lastPointer = "none"
    /\ gesture = NoGesture
    /\ prevWheel = NoWheel
    /\ inputCount = 0
    /\ wheelCount = 0
    /\ applied = <<>>
    /\ loadedAt = -1
    /\ fetchCount = 0
    /\ loadCount = 0
    /\ hlCalls = 0

\* the page as loaded in the default browser
Init == InitWith(DefaultBrowser)

\* the page as loaded in any of the browsers
LogInit == \E b \in Browsers : InitWith(b)

\* ------------------------------------------------------------------------
\* App
\* ------------------------------------------------------------------------
\* the trimmed text of a node's label
LabelText(n) == Str(Join(Trim(NodeLabel[n])))

\* highlightCurrentState without the loop that resets the fills
highlightCurrentStateNoReset(fills, sg, rendered) ==
    IF ~Truthy(Get(sg, "CurrentState")) THEN fills
    ELSE LET color == IF Truthy(Get(sg, "LastError")) THEN "lightpink" ELSE "lightgreen"
             rects == IF rendered THEN Nodes ELSE {}
         IN  [n \in Nodes |->
                IF n \in rects /\ LabelText(n) = Get(sg, "CurrentState")
                THEN color ELSE fills[n]]

\* highlightCurrentState that takes the highlight off a node that already has it
highlightCurrentStateToggle(fills, sg, rendered) ==
    IF ~Truthy(Get(sg, "CurrentState")) THEN fills
    ELSE LET color == IF Truthy(Get(sg, "LastError")) THEN "lightpink" ELSE "lightgreen"
             rects == IF rendered THEN Nodes ELSE {}
         IN  [n \in Nodes |->
                IF n \in rects
                THEN IF LabelText(n) = Get(sg, "CurrentState") /\ fills[n] # color
                     THEN color ELSE "white"
                ELSE fills[n]]

\* highlightCurrentState: the fills it leaves, given the fills it finds
highlightCurrentState(fills, sg, rendered) ==
    IF ~Truthy(Get(sg, "CurrentState")) THEN fills
    ELSE LET color == IF Truthy(Get(sg, "LastError")) THEN "lightpink" ELSE "lightgreen"
             rects == IF rendered THEN Nodes ELSE {}
             reset == [n \in Nodes |-> IF n \in rects THEN "white" ELSE fills[n]]
         IN  [n \in Nodes |->
                IF n \in rects /\ LabelText(n) = Get(sg, "CurrentState")
                THEN color ELSE reset[n]]

\* fetchState without the response.ok test
fetchStateNoOkTest(resp) ==
    IF resp.kind = "network_error" THEN Null
    ELSE resp.body

\* fetchState: the value the await yields
fetchState(resp) ==
    IF resp.kind = "network_error" THEN Null
    ELSE IF ~resp.ok THEN Null
    ELSE resp.body

\* a tick that never calls clearInterval
PollAfterTickNoClear(measurable) == TRUE

\* pollForMermaidRender: is the interval still registered after a tick
PollAfterTick(measurable) == ~measurable

\* enablePanAndZoom: the initial transform
CenterTransform ==
    [x |-> Sub(DivInt(Num(ClientWidth - BBox.width), 2), Num(BBox.x)),
     y |-> Sub(DivInt(Num(ClientHeight - BBox.height), 2), Num(BBox.y)),
     scale |-> Literal1]

\* updateSagaState that merges the payload into the old record
updateSagaStateMerge(state) ==
    /\ saga' = [f \in DOMAIN saga \cup DOMAIN state |->
                    IF f \in DOMAIN state THEN state[f] ELSE saga[f]]
    /\ vmLastError' = Get(state, "LastError")
    /\ vmCurrentState' = Get(state, "CurrentState")

\* updateSagaState
updateSagaState(state) ==
    /\ saga' = state
    /\ vmLastError' = Get(state, "LastError")
    /\ vmCurrentState' = Get(state, "CurrentState")

\* handleSseMessage(event): JSON.parse throws on a text that is not JSON, and
\* updateSagaState throws at state.LogScope, after this.saga = state, on null
sseMessage(event) ==
    IF ~IsJson(event.data)
    THEN UNCHANGED <<syncVars, applied, hlCalls>>
    ELSE LET state == JSONParse(event.data)
         IN  /\ applied' = Append(applied, state)
             /\ IF state.type \in {"null", "undefined"}
                THEN /\ saga' = state
                     /\ UNCHANGED <<vmLastError, vmCurrentState, logScopes, rectFill, hlCalls>>
                ELSE /\ updateSagaState(state)
                     /\ logScopes' = appendLogScope(logScopes, Get(state, "LogScope"))
                     /\ rectFill' = highlightCurrentState(rectFill, state, svgRendered)
                     /\ hlCalls' = hlCalls + 1

\* a handler that only sees the latest of the queued events
handleSseMessageCoalescing ==
    /\ delivered < Len(sent)
    /\ sseMessage(sent[Len(sent)])
    /\ delivered' = Len(sent)
    /\ UNCHANGED <<browser, sent, preScopes, response, svgRendered, pollVars, panZoomVars, uiVars,
                   loadedAt, fetchCount, loadCount>>

\* evtSource.onmessage: handleSseMessage on the next event of the stream
handleSseMessage ==
    /\ delivered < Len(sent)
    /\ sseMessage(sent[delivered + 1])
    /\ delivered' = delivered + 1
    /\ UNCHANGED <<browser, sent, preScopes, response, svgRendered, pollVars, panZoomVars, uiVars,
                   loadedAt, fetchCount, loadCount>>

\* one tick of the interval of pollForMermaidRender, up to the await
PollTick ==
    /\ pollActive
    /\ fetchCount < MaxFetches   \* cap of the history counter
    /\ pollActive' = PollAfterTick(svgRendered)
    /\ IF svgRendered
       THEN /\ fetchPc' = "awaiting"
            /\ response' = NoResponse
            /\ fetchCount' = fetchCount + 1
       ELSE UNCHANGED <<fetchPc, response, fetchCount>>
    /\ UNCHANGED <<browser, sent, delivered, preScopes, svgRendered, syncVars, panZoomVars, uiVars,
                   applied, loadedAt, loadCount, hlCalls>>

\* the continuation of the tick after await this.fetchState()
FetchResolve ==
    /\ fetchPc = "awaiting"
    /\ response # NoResponse
    /\ fetchPc' = "done"
    /\ response' = NoResponse
    /\ LET initialState == fetchState(response)
       IN  IF ~Truthy(initialState)
           THEN UNCHANGED <<syncVars, panZoomVars, loadedAt, loadCount, hlCalls>>
           ELSE /\ updateSagaState(initialState)
                /\ IF Get(initialState, "Log").type = "object"
                   THEN /\ logScopes' = loadLogData(
                                appendLogScope(logScopes, Get(initialState, "LogScope")),
                                initialState.Log)
                        /\ loadedAt' = delivered
                        /\ loadCount' = loadCount + 1
                        /\ rectFill' = highlightCurrentState(rectFill, initialState, svgRendered)
                        /\ hlCalls' = hlCalls + 1
                        /\ IF zoomContainer
                           THEN UNCHANGED panZoomVars
                           ELSE /\ zoomContainer' = TRUE
                                /\ transform' = CenterTransform
                                /\ isPanning' = FALSE
                                /\ startPoint' = [x |-> Literal0, y |-> Literal0]
                   ELSE \* initialState.Log is undefined: rawData.Scopes throws
                        /\ logScopes' = appendLogScope(logScopes, Get(initialState, "LogScope"))
                        /\ UNCHANGED <<rectFill, panZoomVars, loadedAt, loadCount, hlCalls>>
    /\ UNCHANGED <<browser, sent, delivered, preScopes, svgRendered, pollActive, uiVars, applied,
                   fetchCount>>

\* ------------------------------------------------------------------------
\* enablePanAndZoom: the listeners on the svg
\* ------------------------------------------------------------------------
\* screenToSvg: the client point through the inverse of the screen matrix
\* p.matrixTransform(svg.getScreenCTM().inverse()) of the point p at q
matrixTransform(q) ==
    LET m == ScreenCTM
        det == m.a * m.d - m.b * m.c
        dx == q.clientX - m.e
        dy == q.clientY - m.f
    IN  [x |-> DivInt(Num(m.d * dx - m.c * dy), det),
         y |-> DivInt(Num(m.a * dy - m.b * dx), det)]

\* matrixTransform of each pointer position of the model
SvgPoints == [q \in ClientPoints |-> matrixTransform(q)]

screenToSvg(e) == SvgPoints[[clientX |-> e.clientX, clientY |-> e.clientY]]

\* the closure state of enablePanAndZoom
PanZoom == [transform |-> transform, isPanning |-> isPanning, startPoint |-> startPoint]

\* the mousedown listener
mousedown(pz, e) ==
    [pz EXCEPT !.isPanning = TRUE, !.startPoint = screenToSvg(e)]

\* a mousemove listener without the isPanning test
mousemoveUnguarded(pz, e) ==
    LET endPoint == screenToSvg(e)
    IN  [pz EXCEPT !.transform.x = Add(@, Sub(endPoint.x, pz.startPoint.x)),
                   !.transform.y = Add(@, Sub(endPoint.y, pz.startPoint.y)),
                   !.startPoint = endPoint]

\* a mousemove listener that keeps the anchor of the mousedown
mousemoveFixedAnchor(pz, e) ==
    IF ~pz.isPanning THEN pz
    ELSE LET endPoint == screenToSvg(e)
         IN  [pz EXCEPT !.transform.x = Add(@, Sub(endPoint.x, pz.startPoint.x)),
                        !.transform.y = Add(@, Sub(endPoint.y, pz.startPoint.y))]

\* the mousemove listener
mousemove(pz, e) ==
    IF ~pz.isPanning THEN pz
    ELSE LET endPoint == screenToSvg(e)
         IN  [pz EXCEPT !.transform.x = Add(@, Sub(endPoint.x, pz.startPoint.x)),
                        !.transform.y = Add(@, Sub(endPoint.y, pz.startPoint.y)),
                        !.startPoint = endPoint]

\* the mouseup and mouseleave listener
onMouseUpOrLeave(pz) == [pz EXCEPT !.isPanning = FALSE]

\* const zoomFactor = e.deltaY < 0 ? 1.1 : 0.9
zoomFactor(deltaY) == IF deltaY < 0 THEN Literal1_1 ELSE Literal0_9

\* a wheel listener that scales about the origin instead of the pointer
wheelNoAnchor(pz, e) ==
    LET f == zoomFactor(e.deltaY)
    IN  [pz EXCEPT !.transform.x = Mul(@, f),
                   !.transform.y = Mul(@, f),
                   !.transform.scale = Mul(@, f)]

\* the wheel listener
wheel(pz, e) ==
    LET f == zoomFactor(e.deltaY)
        mousePoint == screenToSvg(e)
    IN  [pz EXCEPT !.transform.x = Sub(mousePoint.x, Mul(Sub(mousePoint.x, @), f)),
                   !.transform.y = Sub(mousePoint.y, Mul(Sub(mousePoint.y, @), f)),
                   !.transform.scale = Mul(@, f)]

\* the closure state after a listener ran
Listened(pz) ==
    /\ transform' = pz.transform
    /\ isPanning' = pz.isPanning
    /\ startPoint' = pz.startPoint
    /\ UNCHANGED zoomContainer

\* an event on the svg: it reaches a listener once enablePanAndZoom attached them
MouseDownOn(e) ==
    /\ svgRendered
    /\ inputCount' = inputCount + 1
    /\ UNCHANGED wheelCount
    /\ IF zoomContainer
       THEN /\ Listened(mousedown(PanZoom, e))
            /\ lastPointer' = "down"
            /\ gesture' = [active |-> TRUE, wheeled |-> FALSE, p0 |-> screenToSvg(e),
                           pn |-> screenToSvg(e), t0 |-> transform, moves |-> 0]
            /\ prevWheel' = NoWheel
       ELSE UNCHANGED <<panZoomVars, lastPointer, gesture, prevWheel>>
    /\ UNCHANGED <<envVars, syncVars, pollVars, cmdVars, histVars>>

MouseMoveOn(e) ==
    /\ svgRendered
    /\ inputCount' = inputCount + 1
    /\ UNCHANGED wheelCount
    /\ IF zoomContainer
       THEN /\ Listened(mousemove(PanZoom, e))
            /\ gesture' = IF gesture.active /\ isPanning
                          THEN [gesture EXCEPT !.pn = screenToSvg(e), !.moves = @ + 1]
                          ELSE gesture
            /\ prevWheel' = NoWheel
       ELSE UNCHANGED <<panZoomVars, gesture, prevWheel>>
    /\ UNCHANGED <<envVars, syncVars, pollVars, cmdVars, lastPointer, histVars>>

MouseUpOrLeave(kind) ==
    /\ svgRendered
    /\ inputCount' = inputCount + 1
    /\ UNCHANGED wheelCount
    /\ IF zoomContainer
       THEN /\ Listened(onMouseUpOrLeave(PanZoom))
            /\ lastPointer' = kind
            /\ prevWheel' = NoWheel
       ELSE UNCHANGED <<panZoomVars, lastPointer, prevWheel>>
    /\ UNCHANGED <<envVars, syncVars, pollVars, cmdVars, gesture, histVars>>

WheelOn(e) ==
    /\ svgRendered
    /\ inputCount' = inputCount + 1
    /\ wheelCount' = wheelCount + 1
    /\ IF zoomContainer
       THEN /\ Listened(wheel(PanZoom, e))
            /\ gesture' = IF gesture.active THEN [gesture EXCEPT !.wheeled = TRUE]
                          ELSE gesture
            /\ prevWheel' = [kind |-> IF e.deltaY < 0 THEN "in" ELSE "out",
                             event |-> e, from |-> transform,
                             run |-> IF prevWheel # NoWheel /\ prevWheel.event = e
                                     THEN prevWheel.run + 1 ELSE 1]
       ELSE UNCHANGED <<panZoomVars, gesture, prevWheel>>
    /\ UNCHANGED <<envVars, syncVars, pollVars, cmdVars, lastPointer, histVars>>

MouseDown(max) == inputCount < max /\ \E e \in ClientPoints : MouseDownOn(e)

MouseMove(max) == inputCount < max /\ \E e \in ClientPoints : MouseMoveOn(e)

MouseUp(max) == inputCount < max /\ MouseUpOrLeave("up")

MouseLeave(max) == inputCount < max /\ MouseUpOrLeave("leave")

Wheel(max, maxWheels) ==
    inputCount < max /\ wheelCount < maxWheels /\ \E e \in WheelEvents : WheelOn(e)

\* ------------------------------------------------------------------------
\* The command buttons
\* ------------------------------------------------------------------------
RECURSIVE FilterBoolean(_)
\* .filter(Boolean) of an array of strings
FilterBoolean(a) ==
    IF a = <<>> THEN <<>>
    ELSE (IF Head(a) # "" THEN <<Head(a)>> ELSE <<>>) \o FilterBoolean(Tail(a))

\* .pop() of an array: its last element, undefined when it is empty
Pop(a) == IF a = <<>> THEN Undefined ELSE Str(a[Len(a)])

\* publishMessage(typeName, value): the POST it starts
publishMessage(typeName, value) ==
    LET companyId == Pop(FilterBoolean(PathSegments))
        withCompany == [f \in DOMAIN value \cup {"CompanyId"} |->
                           IF f = "CompanyId" THEN companyId ELSE value[f]]
    IN  [status |-> "pending", url |-> "publish/" \o typeName, method |-> "POST",
         body |-> JSONStringify(withCompany)]

\* a retry argument taken from the error instead of the state
retryValueOfError(sg) == [type |-> "object", retryState |-> Get(sg, "LastError")]

\* { retryState: this.saga.CurrentState }
retryValue(sg) == [type |-> "object", retryState |-> Get(sg, "CurrentState")]

\* reading a property of null or undefined throws a TypeError
ReadThrows(obj) == obj.type \in {"null", "undefined"}

Publish(request) ==
    /\ lastRequest' = request
    /\ UNCHANGED <<envVars, syncVars, pollVars, panZoomVars, gestureVars, histVars>>

\* window.retry
retry ==
    IF ReadThrows(saga) THEN UNCHANGED vars
    ELSE Publish(publishMessage("RetryFaultedActivity", retryValue(saga)))

\* window.pause
pause == Publish(publishMessage("PauseSaga", [type |-> "object"]))

\* window.resume
resume == Publish(publishMessage("ResumeSaga", [type |-> "object"]))

\* window.remove
remove == Publish(publishMessage("RemoveSaga", [type |-> "object"]))

\* window.restart
restart == Publish(publishMessage("RestartSaga", [type |-> "object"]))

\* the POST settles: any response fulfils it, a network failure rejects it and
\* the catch handler logs and alerts
PublishSettle ==
    /\ lastRequest.status = "pending"
    /\ \E outcome \in {"fulfilled", "alerted"} :
          lastRequest' = [lastRequest EXCEPT !.status = outcome]
    /\ UNCHANGED <<envVars, syncVars, pollVars, panZoomVars, gestureVars, histVars>>

\* ------------------------------------------------------------------------
\* Environment
\* ------------------------------------------------------------------------
\* mermaid finishes rendering the diagram
MermaidRender ==
    /\ ~svgRendered
    /\ svgRendered' = TRUE
    /\ UNCHANGED <<browser, sent, delivered, preScopes, response, syncVars, pollVars,
                   panZoomVars, uiVars, histVars>>

\* the saga moves on and the server pushes its new record on the stream
ServerEmitFrom(max, pairs) ==
    /\ Len(sent) < max
    /\ \E pair \in pairs, withScope \in BOOLEAN :
          LET k == Len(ServerLog(preScopes, sent)) + 1
              p == Payload(pair[1], pair[2], IF withScope THEN ScopeOf(k) ELSE Null)
          IN  /\ withScope \/ pair[2] = Null
              /\ sent' = Append(sent, SseEvent(p))
    /\ UNCHANGED <<browser, delivered, preScopes, response, svgRendered, syncVars, pollVars,
                   panZoomVars, uiVars, histVars>>

ServerEmitUpTo(max) == ServerEmitFrom(max, StateErrorPairs)

ServerEmit == ServerEmitUpTo(MaxEvents)

\* the server answers GET state, or the request fails
ServerRespond ==
    /\ fetchPc = "awaiting"
    /\ response = NoResponse
    /\ \/ response' = [kind |-> "ok", ok |-> TRUE, status |-> 200,
                       body |-> Snapshot(preScopes, sent)]
       \/ response' = [kind |-> "http_error", ok |-> FALSE, status |-> 500,
                       body |-> [type |-> "object", error |-> Str("Internal Server Error")]]
       \/ response' = [kind |-> "network_error"]
    /\ UNCHANGED <<browser, sent, delivered, preScopes, svgRendered, syncVars, pollVars,
                   panZoomVars, uiVars, histVars>>

Next ==
    \/ handleSseMessage
    \/ PollTick
    \/ FetchResolve
    \/ MermaidRender
    \/ ServerEmit
    \/ ServerRespond

Spec == Init /\ [][Next]_vars

\* the poll and the fetch next to a short stream
PollServerEmit == ServerEmitUpTo(MaxPollEvents)

PollNext ==
    \/ handleSseMessage
    \/ PollTick
    \/ FetchResolve
    \/ MermaidRender
    \/ PollServerEmit
    \/ ServerRespond

\* the event loop keeps running the interval and the continuations it queued
PollSpec == Init /\ [][PollNext]_vars /\ WF_vars(PollTick) /\ WF_vars(FetchResolve)

\* the operator clicks the header of a scope of the log
ToggleScope ==
    /\ \E i \in 1..Len(logScopes) : logScopes' = toggleScope(logScopes, i)
    /\ UNCHANGED <<envVars, saga, vmLastError, vmCurrentState, rectFill, pollVars, panZoomVars,
                   uiVars, histVars>>

\* the saga states the log and the pointer are exercised with: one without and
\* one with an error
LogPairs == {<<Str("A"), Null>>, <<Str("B"), Str("timeout")>>}

LogServerEmit == ServerEmitFrom(MaxLogEvents, LogPairs)

\* the log next to the stream and the snapshot, in any browser, with an operator
\* who folds and unfolds scopes
LogNext ==
    \/ handleSseMessage
    \/ PollTick
    \/ FetchResolve
    \/ MermaidRender
    \/ LogServerEmit
    \/ ServerRespond
    \/ ToggleScope

LogSpec == LogInit /\ [][LogNext]_vars

\* the command buttons next to a short stream and the poll
CmdServerEmit == ServerEmitUpTo(MaxCmdEvents)

CommandNext ==
    \/ handleSseMessage
    \/ PollTick
    \/ FetchResolve
    \/ MermaidRender
    \/ CmdServerEmit
    \/ ServerRespond
    \/ retry
    \/ pause
    \/ resume
    \/ remove
    \/ restart
    \/ PublishSettle

CommandSpec == Init /\ [][CommandNext]_vars

\* a stream that carries messages which are not the JSON text of an object
BadServerEmit == ServerEmitUpTo(MaxBadEvents)

ServerEmitMalformed ==
    /\ Len(sent) < MaxBadEvents
    /\ \E d \in MalformedData : sent' = Append(sent, [data |-> d])
    /\ UNCHANGED <<browser, delivered, preScopes, response, svgRendered, syncVars, pollVars,
                   panZoomVars, uiVars, histVars>>

MalformedNext ==
    \/ handleSseMessage
    \/ MermaidRender
    \/ BadServerEmit
    \/ ServerEmitMalformed
    \/ retry
    \/ PublishSettle

MalformedSpec == Init /\ [][MalformedNext]_vars

\* the pointer and the wheel on the diagram, next to the poll and its fetch
PanMouseDown == MouseDown(MaxInputs)

PanMouseMove == MouseMove(MaxInputs)

PanMouseUp == MouseUp(MaxInputs)

PanMouseLeave == MouseLeave(MaxInputs)

PanWheel == Wheel(MaxInputs, MaxPanWheels)

PanZoomNext ==
    \/ PollTick
    \/ FetchResolve
    \/ MermaidRender
    \/ ServerRespond
    \/ PanMouseDown
    \/ PanMouseMove
    \/ PanMouseUp
    \/ PanMouseLeave
    \/ PanWheel

PanZoomSpec == Init /\ [][PanZoomNext]_vars

\* the poll and the pointer, with more of the wheel
ZoomMouseDown == MouseDown(MaxZoomInputs)

ZoomMouseMove == MouseMove(MaxZoomInputs)

ZoomMouseUp == MouseUp(MaxZoomInputs)

ZoomMouseLeave == MouseLeave(MaxZoomInputs)

ZoomWheel == Wheel(MaxZoomInputs, MaxWheels)

\* the user, who has only turned the wheel in one direction at one place so
\* far, turns it on
ZoomWheelAgain ==
    /\ wheelCount < MaxDeepWheels
    /\ prevWheel # NoWheel
    /\ prevWheel.run = inputCount
    /\ WheelOn(prevWheel.event)

ZoomNext ==
    \/ PollTick
    \/ FetchResolve
    \/ MermaidRender
    \/ ServerRespond
    \/ ZoomMouseDown
    \/ ZoomMouseMove
    \/ ZoomMouseUp
    \/ ZoomMouseLeave
    \/ ZoomWheel
    \/ ZoomWheelAgain

ZoomSpec == Init /\ [][ZoomNext]_vars

\* the stream, the poll and the pointer all at once
BothMouseDown == MouseDown(MaxBothInputs)

BothMouseMove == MouseMove(MaxBothInputs)

BothMouseUp == MouseUp(MaxBothInputs)

BothMouseLeave == MouseLeave(MaxBothInputs)

BothWheel == Wheel(MaxBothInputs, MaxBothInputs)

BothServerEmit == ServerEmitFrom(MaxPollEvents, LogPairs)

BothNext ==
    \/ handleSseMessage
    \/ PollTick
    \/ FetchResolve
    \/ MermaidRender
    \/ BothServerEmit
    \/ ServerRespond
    \/ BothMouseDown
    \/ BothMouseMove
    \/ BothMouseUp
    \/ BothMouseLeave
    \/ BothWheel

BothSpec == Init /\ [][BothNext]_vars

\* ------------------------------------------------------------------------
\* highlightCurrentState on its own: any colouring, any record, invoked in a row
\* ------------------------------------------------------------------------
Fills == {DefaultFill, "white", "lightgreen", "lightpink"}

HighlightInit ==
    /\ browser = DefaultBrowser
    /\ sent = <<>>
    /\ delivered = 0
    /\ preScopes = 0
    /\ response = NoResponse
    /\ svgRendered \in BOOLEAN
    /\ saga \in {[type |-> "object"]}
                \cup {Payload(pair[1], pair[2], Null) : pair \in StateErrorPairs}
    /\ vmLastError = Get(saga, "LastError")
    /\ vmCurrentState = Get(saga, "CurrentState")
    /\ logScopes = <<>>
    /\ rectFill \in [Nodes -> Fills]
    /\ pollActive = TRUE
    /\ fetchPc = "idle"
    /\ zoomContainer = FALSE
    /\ transform = IdentityTransform
    /\ isPanning = FALSE
    /\ startPoint = [x |-> Literal0, y |-> Literal0]
    /\ lastRequest = NoRequest
    /\ lastPointer = "none"
    /\ gesture = NoGesture
    /\ prevWheel = NoWheel
    /\ inputCount = 0
    /\ wheelCount = 0
    /\ applied = <<>>
    /\ loadedAt = -1
    /\ fetchCount = 0
    /\ loadCount = 0
    /\ hlCalls = 0

\* this.highlightCurrentState()
Rehighlight ==
    /\ hlCalls < MaxHighlightCalls
    /\ rectFill' = highlightCurrentState(rectFill, saga, svgRendered)
    /\ hlCalls' = hlCalls + 1
    /\ UNCHANGED <<envVars, saga, vmLastError, vmCurrentState, logScopes, pollVars,
                   panZoomVars, uiVars, applied, loadedAt, fetchCount, loadCount>>

HighlightNext == Rehighlight

HighlightSpec == HighlightInit /\ [][HighlightNext]_vars

\* ------------------------------------------------------------------------
\* Properties
\* ------------------------------------------------------------------------
\* the payload of the next event of the stream
NextPayload == JSONParse(sent[delivered + 1].data)

\* the snapshot continuation ran with an initial state
SnapshotApplied == FetchResolve /\ Truthy(fetchState(response))

\* C1: after a stream payload is processed the saga record is that payload and
\* nothing else, the observables are the payload's LastError and CurrentState;
\* in every state the observables equal the record's fields.
C1_RecordReplacedWholesale ==
    /\ [][handleSseMessage =>
            /\ saga' = NextPayload
            /\ vmLastError' = NextPayload.LastError
            /\ vmCurrentState' = NextPayload.CurrentState]_vars
    /\ [](/\ vmLastError = Get(saga, "LastError")
          /\ vmCurrentState = Get(saga, "CurrentState"))

\* a stream event replaced the snapshot's record: its Log field is gone
C1_Witness ==
    /\ loadCount = 1
    /\ delivered > loadedAt
    /\ saga = JSONParse(sent[delivered].data)
    /\ "Log" \notin DOMAIN saga
    /\ vmCurrentState = Str("B")
    /\ vmLastError = Str("timeout")

\* C2: a stream payload with a LogScope puts exactly one scope, built from it,
\* at index 1 and shifts the scopes that were there by one, keeping their order;
\* a payload without a LogScope leaves LogHistory unchanged.
C2_AtMostOneScopeAtFront ==
    [][handleSseMessage =>
         IF Truthy(NextPayload.LogScope)
         THEN /\ Len(logScopes') = Len(logScopes) + 1
              /\ logScopes'[1] = createScope(NextPayload.LogScope)
              /\ \A i \in 1..Len(logScopes) : logScopes'[i + 1] = logScopes[i]
         ELSE logScopes' = logScopes]_vars

\* two appends in a row: the later scope is in front of the earlier one
C2_Witness ==
    /\ loadCount = 0
    /\ preScopes = 0
    /\ delivered = 2
    /\ Len(logScopes) = 2
    /\ logScopes[1].messageId = "m2"
    /\ logScopes[2].messageId = "m1"
    /\ ~logScopes[2].expanded
    /\ browser.offsetMinutes = 60
    /\ logScopes[2].formattedStart = "01:00:01.000"

\* the events dispatched since the bulk load (all of them when there was none)
SinceLoad == SubSeq(sent, (IF loadedAt < 0 THEN 0 ELSE loadedAt) + 1, delivered)

\* a history with every scope unfolded
Unfolded(history) == [i \in 1..Len(history) |-> [history[i] EXCEPT !.expanded = TRUE]]

\* C3: the events are applied in arrival order, each once: the records installed
\* from the stream are the dispatched events in order, the record after a run of
\* events is the last of them, and the scopes of the run are at the front of
\* LogHistory in reverse arrival order, folded or not.
C3_ArrivalOrder ==
    LET run == ScopesIn(SinceLoad)
        front == Reverse([i \in 1..Len(run) |-> createScope(run[i])])
    IN  /\ applied = [i \in 1..delivered |-> JSONParse(sent[i].data)]
        /\ SinceLoad # <<>> => saga = JSONParse(sent[delivered].data)
        /\ Len(logScopes) >= Len(front)
        /\ Unfolded(SubSeq(logScopes, 1, Len(front))) = front

\* two different events with scopes arrived after the bulk load
C3_Witness ==
    /\ loadCount = 1
    /\ loadedAt = 0
    /\ delivered = 2
    /\ applied[1] # applied[2]
    /\ Len(logScopes) = 3
    /\ logScopes[1].messageId = "m3"
    /\ ~logScopes[2].expanded
    /\ logScopes[3].messageId = "m1"

\* C4: right after a successful snapshot is applied LogHistory is the reverse of
\* the snapshot's Log.Scopes, of the same length: nothing older survives and the
\* snapshot's own LogScope is not an extra element.
C4_BulkLoadReverses ==
    [][SnapshotApplied =>
         LET raw == response.body.Log.Scopes.items
         IN  /\ Len(logScopes') = Len(raw)
             /\ \A i \in 1..Len(raw) : logScopes'[i] = createScope(raw[Len(raw) + 1 - i])]_vars

\* a snapshot of three scopes with a LogScope of its own has just been loaded
C4_Witness ==
    /\ loadCount = 1
    /\ loadedAt = delivered
    /\ "Log" \in DOMAIN saga
    /\ Truthy(saga.LogScope)
    /\ Len(saga.Log.Scopes.items) >= 3
    /\ Len(logScopes) = Len(saga.Log.Scopes.items)
    /\ logScopes[1].messageId = saga.LogScope.MessageId
    /\ logScopes[Len(logScopes)].messageId = "m1"

\* C5: the tick that finds the diagram measurable cancels the poll before it
\* suspends on the fetch; the poll stays cancelled and no tick can run once it is;
\* the snapshot is fetched and the log bulk-loaded at most once; a measurable
\* diagram leads to the poll being cancelled.
C5_PollOneShot ==
    /\ [](fetchCount <= 1 /\ loadCount <= 1)
    /\ [][PollTick /\ svgRendered => ~pollActive' /\ fetchPc' = "awaiting"]_vars
    /\ [][~pollActive => ~pollActive']_vars
    /\ [](~pollActive => ~ENABLED PollTick)
    /\ (svgRendered ~> ~pollActive)

\* the poll is cancelled while the fetch is pending and stream events wait
C5_Witness ==
    /\ ~pollActive
    /\ fetchPc = "awaiting"
    /\ fetchCount = 1
    /\ response = NoResponse
    /\ delivered < Len(sent)

\* C6: a failed snapshot fetch (network error or non-2xx) yields no initial state
\* and leaves the record, the observables, LogHistory and the colouring as they
\* were; stream events stay deliverable and, with no snapshot loaded, each one
\* replaces the record, appends its scope, updates the observables and triggers
\* the highlight.
C6_FetchFailureIsInert ==
    /\ [][FetchResolve /\ response.kind \in {"http_error", "network_error"} =>
            /\ fetchState(response) = Null
            /\ UNCHANGED <<syncVars, panZoomVars, loadCount>>]_vars
    /\ [](fetchPc = "done" /\ loadCount = 0 /\ delivered < Len(sent)
            => ENABLED handleSseMessage)
    /\ [][handleSseMessage /\ loadCount = 0 =>
            /\ saga' = NextPayload
            /\ logScopes' = (IF Truthy(NextPayload.LogScope)
                             THEN <<createScope(NextPayload.LogScope)>> ELSE <<>>) \o logScopes
            /\ vmLastError' = NextPayload.LastError
            /\ vmCurrentState' = NextPayload.CurrentState
            /\ hlCalls' = hlCalls + 1]_vars

\* the fetch failed and the stream has populated the view
C6_Witness ==
    /\ fetchPc = "done"
    /\ fetchCount = 1
    /\ loadCount = 0
    /\ ~zoomContainer
    /\ delivered = Len(sent)
    /\ delivered >= 1
    /\ saga = applied[delivered]
    /\ Len(logScopes) >= 1
    /\ \E n \in Nodes : rectFill[n] = "lightpink"

\* how often a scope, known by its messageId, occurs in a history
Occurrences(scope, history) ==
    Cardinality({i \in 1..Len(history) : history[i].messageId = scope.messageId})

\* C7: stream events are deliverable before the snapshot resolves and are applied
\* without a prior load; when the snapshot is then applied, no scope the stream
\* had appended occurs more than once in LogHistory.
C7_NoDuplicateAfterLateLoad ==
    /\ [](fetchPc \in {"idle", "awaiting"} /\ delivered < Len(sent)
            => ENABLED handleSseMessage)
    /\ [][handleSseMessage /\ fetchPc \in {"idle", "awaiting"} =>
            /\ vmLastError' = NextPayload.LastError
            /\ vmCurrentState' = NextPayload.CurrentState
            /\ Truthy(NextPayload.LogScope) =>
                 Occurrences(createScope(NextPayload.LogScope), logScopes') = 1]_vars
    /\ [][SnapshotApplied =>
            \A i \in 1..delivered :
               Truthy(applied[i].LogScope) =>
                  Occurrences(createScope(applied[i].LogScope), logScopes') <= 1]_vars

\* a scope the stream appended first is there once after the late bulk load
C7_Witness ==
    /\ loadCount = 1
    /\ loadedAt = delivered
    /\ delivered >= 1
    /\ Truthy(applied[1].LogScope)
    /\ Occurrences(createScope(applied[1].LogScope), logScopes) = 1

\* a step in which highlightCurrentState ran
HighlightRan == hlCalls' = hlCalls + 1

Coloured(n) == rectFill[n] \in {"lightgreen", "lightpink"}

\* nodes of two different state names are never coloured together
OneNameColoured == \A n, m \in Nodes : Coloured(n) /\ Coloured(m) => LabelText(n) = LabelText(m)

\* C8 as stated: the error colour whenever LastError is not null.
C8_ErrorColourWhenNonNull ==
    /\ [][HighlightRan /\ svgRendered /\ Get(saga', "CurrentState") \notin {Null, Undefined} =>
            \A n \in Nodes :
               rectFill'[n] = IF LabelText(n) = saga'.CurrentState
                              THEN IF Get(saga', "LastError") \notin {Null, Undefined}
                                   THEN "lightpink" ELSE "lightgreen"
                              ELSE "white"]_vars
    /\ []OneNameColoured

\* C8 (amended): after a repaint with a non-empty current state, every node whose
\* trimmed label equals it is filled with the error colour if LastError is truthy
\* (neither null nor the empty string) and with the success colour otherwise, and
\* every other node is white; nodes of two different names are never coloured
\* together.
C8_ErrorColourWhenTruthy ==
    /\ [][HighlightRan /\ svgRendered /\ Truthy(Get(saga', "CurrentState")) =>
            \A n \in Nodes :
               rectFill'[n] = IF LabelText(n) = saga'.CurrentState
                              THEN IF Truthy(Get(saga', "LastError"))
                                   THEN "lightpink" ELSE "lightgreen"
                              ELSE "white"]_vars
    /\ []OneNameColoured

\* after A the saga went to B with an error: B's node is pink, A's nodes are reset
C8_Witness ==
    /\ hlCalls >= 2
    /\ Get(saga, "CurrentState") = Str("B")
    /\ rectFill[2] = "lightpink"
    /\ rectFill[1] = "white"
    /\ rectFill[4] = "white"
    /\ \E i \in 1..delivered : applied[i].CurrentState = Str("A")

\* C9: a repaint with no current state, or with one that matches no label, leaves
\* no node with the success or the error colour.
C9_ResetWithoutMatch ==
    [][HighlightRan /\ (\/ Get(saga', "CurrentState") \in {Null, Undefined}
                        \/ \A n \in Nodes : LabelText(n) # Get(saga', "CurrentState")) =>
          \A n \in Nodes : rectFill'[n] \notin {"lightgreen", "lightpink"}]_vars

\* C10: a second invocation of highlightCurrentState in a row, on the same
\* record, leaves the colouring the first one produced.
C10_HighlightIdempotent ==
    [][Rehighlight /\ hlCalls >= 1 => rectFill' = rectFill]_vars

\* the resolver ran twice on a diagram that had other nodes coloured
C10_Witness ==
    /\ hlCalls = 2
    /\ svgRendered
    /\ Get(saga, "CurrentState") = Str("A")
    /\ rectFill = [n \in Nodes |-> IF n \in {1, 4} THEN "lightpink" ELSE "white"]


\* a mousemove reached the svg
MouseMoved == \E e \in ClientPoints : MouseMoveOn(e)

\* a wheel event reached the wheel listener
WheelTaken == inputCount' = inputCount + 1 /\ prevWheel' # NoWheel

\* C11: the pan engine is Panning exactly when the last of mousedown, mouseup
\* and mouseleave was a mousedown, and Idle before any of them; a mousemove
\* while Idle leaves the transform alone; a wheel event changes neither the
\* Idle/Panning state nor the drag anchor.
C11_PanTwoStates ==
    /\ [](isPanning <=> lastPointer = "down")
    /\ [][~isPanning /\ MouseMoved => transform' = transform]_vars
    /\ [][WheelTaken => isPanning' = isPanning /\ startPoint' = startPoint]_vars

C11_Witness ==
    /\ lastPointer = "leave"
    /\ ~isPanning
    /\ gesture.active
    /\ gesture.wheeled
    /\ gesture.moves > 0
    /\ transform # gesture.t0

\* |x| < 2^k, for an exact number x
Within(x, k) == x.m = <<>> \/ BitLen(x.m) + x.e <= k

\* x is below the rounding allowed to a translation or an anchor, 2^-40
WithinRounding(x) == Within(x, -40)

\* how far the translation has moved since the mousedown, on an axis, beyond
\* the move of the pointer
PanDrift(axis) ==
    XSub(XSub(transform[axis], gesture.t0[axis]), XSub(gesture.pn[axis], gesture.p0[axis]))

\* C12 as stated: while no wheel event fell inside a pan gesture, the
\* translation has moved from its value at the mousedown by exactly Pn - P0, the
\* last pointer position minus the first, whatever the moves in between, and
\* the scale is the one at the mousedown.
C12_PanTelescopes ==
    gesture.active /\ ~gesture.wheeled =>
        /\ PanDrift("x") = Zero
        /\ PanDrift("y") = Zero
        /\ transform.scale = gesture.t0.scale

\* C12: while no wheel event fell inside a pan gesture, the translation has
\* moved from its value at the mousedown by Pn - P0 up to the rounding of the
\* additions, whatever the moves in between, and the scale is exactly the one
\* at the mousedown.
C12_PanTelescopesToRounding ==
    gesture.active /\ ~gesture.wheeled =>
        /\ WithinRounding(PanDrift("x"))
        /\ WithinRounding(PanDrift("y"))
        /\ transform.scale = gesture.t0.scale

\* a gesture of two moves after a zoom, whose additions were rounded
C12_Witness ==
    /\ gesture.active
    /\ ~gesture.wheeled
    /\ gesture.moves >= 2
    /\ gesture.pn # gesture.p0
    /\ gesture.t0.scale # Literal1
    /\ PanDrift("x") # Zero

\* the two factors a wheel event scales by
ZoomFactors == {Literal1_1, Literal0_9}

\* (p - t) * scale' - (p - t') * scale on an axis: zero exactly when the diagram
\* point under p is the same for translation t, scale and for t', scale'
AnchorDrift(p, t, u, axis) ==
    XSub(XMul(XSub(p[axis], t[axis]), u.scale), XMul(XSub(p[axis], u[axis]), t.scale))

\* the wheel listener's arithmetic on translation t and pointer p with factor f
Zoomed(e, t, u) ==
    LET p == screenToSvg(e)
    IN  \E f \in ZoomFactors :
           /\ u.scale = Mul(t.scale, f)
           /\ e.deltaY < 0 => Less(Literal1, f)
           /\ e.deltaY > 0 => Less(f, Literal1)
           /\ u.x = Sub(p.x, Mul(Sub(p.x, t.x), f))
           /\ u.y = Sub(p.y, Mul(Sub(p.y, t.y), f))

\* In the two formulas of C13 the wheel event is the last event a listener took,
\* t and scale are the transform it found and t' and scale' the transform now.
\* C13 as stated: a wheel event at p multiplies the scale by a fixed factor f,
\* above 1 for a negative deltaY and below 1 for a positive one, sets the
\* translation to p - (p - t) * f, and so keeps the diagram point under the
\* cursor: (p - t) / scale = (p - t') / scale' on both axes.
C13_WheelAnchorsCursor ==
    prevWheel # NoWheel =>
        LET p == screenToSvg(prevWheel.event)
        IN  /\ Zoomed(prevWheel.event, prevWheel.from, transform)
            /\ AnchorDrift(p, prevWheel.from, transform, "x") = Zero
            /\ AnchorDrift(p, prevWheel.from, transform, "y") = Zero

\* the magnitude of an exact number
XAbs(x) == IF x.neg THEN XNeg(x) ELSE x

\* x * 2^k
XScale(x, k) == Dyadic(x.neg, x.m, x.e + k)

\* the rounding the wheel listener's four operations can leave in AnchorDrift:
\* 2^-51 * (|p - t| * scale' + |t'| * scale), four units of the rounding of a
\* double, 2^-53, on the magnitudes the operations work on
AnchorRounding(p, t, u, axis) ==
    XScale(XAdd(XMul(XAbs(XSub(p[axis], t[axis])), u.scale), XMul(XAbs(u[axis]), t.scale)),
           -51)

\* the anchor has moved by no more than the rounding of the operations
AnchoredToRounding(p, t, u, axis) ==
    ~Less(AnchorRounding(p, t, u, axis), XAbs(AnchorDrift(p, t, u, axis)))

\* C13: a wheel event at p multiplies the scale by a fixed factor f, above 1
\* for a negative deltaY and below 1 for a positive one, sets the translation
\* to p - (p - t) * f, each operation rounded to a double, and so keeps the
\* diagram point under the cursor up to that rounding, relative to the
\* magnitudes involved: (p - t) * scale' and (p - t') * scale differ by no more
\* than 2^-51 * (|p - t| * scale' + |t'| * scale) on both axes, at every zoom
\* level.
C13_WheelAnchorsCursorToRounding ==
    prevWheel # NoWheel =>
        LET p == screenToSvg(prevWheel.event)
        IN  /\ Zoomed(prevWheel.event, prevWheel.from, transform)
            /\ AnchoredToRounding(p, prevWheel.from, transform, "x")
            /\ AnchoredToRounding(p, prevWheel.from, transform, "y")

\* deep in a zoom-in, at a scale above 10, where the drift has outgrown 2^-40
C13_Witness ==
    /\ prevWheel # NoWheel
    /\ prevWheel.kind = "in"
    /\ Less(Num(10), transform.scale)
    /\ ~WithinRounding(AnchorDrift(screenToSvg(prevWheel.event), prevWheel.from,
                                   transform, "x"))

\* C14: a zoom-out that directly follows a zoom-in at the same cursor position
\* puts the transform back to what it was before the zoom-in: x, y and scale
\* are the former ones to within the rounding of the arithmetic, 2^-40.
C14_ZoomRoundTrip ==
    [][/\ WheelTaken
       /\ prevWheel.kind = "in"
       /\ prevWheel'.kind = "out"
       /\ prevWheel'.event.clientX = prevWheel.event.clientX
       /\ prevWheel'.event.clientY = prevWheel.event.clientY
       => \A axis \in {"x", "y", "scale"} :
             WithinRounding(XSub(transform'[axis], prevWheel.from[axis]))]_vars

\* C15: once the continuation of the poll's fetch has run, whatever the fetch
\* gave, the pan/zoom setup has been performed.
C15_SetupWhateverTheFetch == fetchPc = "done" => zoomContainer


\* a command button started a POST
CommandIssued == lastRequest' # lastRequest /\ lastRequest'.status = "pending"

\* C16: a RetryFaultedActivity POST carries as retryState the CurrentState the
\* saga record has when the button is pressed, and the CompanyId of the page;
\* pressing any button, and the POST fulfilling or failing, leaves the saga
\* record, the observables, LogHistory and the transform as they were.
C16_CommandsReadOnly ==
    /\ [][CommandIssued /\ lastRequest'.url = "publish/RetryFaultedActivity" =>
            /\ Get(JSONParse(lastRequest'.body), "retryState") = Get(saga, "CurrentState")
            /\ Get(JSONParse(lastRequest'.body), "CompanyId") = Str("acme")]_vars
    /\ [][lastRequest' # lastRequest =>
            UNCHANGED <<saga, vmLastError, vmCurrentState, logScopes, transform>>]_vars

C16_Witness ==
    /\ lastRequest.status = "alerted"
    /\ lastRequest.url = "publish/RetryFaultedActivity"
    /\ Get(JSONParse(lastRequest.body), "retryState") = Str("B")
    /\ Get(saga, "CurrentState") = Str("B")
    /\ Get(saga, "LastError") = Str("timeout")
    /\ loadCount = 1

\* the numbers of emitted events after which GET state answers with the body
SnapshotAges(body) ==
    {k \in 0..Len(sent) : Snapshot(preScopes, SubSeq(sent, 1, k)) = body}

\* C17: a scope a stream event put into LogHistory is in LogHistory after every
\* later step, and the snapshot continuation never installs a record older
\* than the events already applied.
C17_StreamScopesKept ==
    /\ [][\A i \in 1..delivered :
             /\ Truthy(applied[i].LogScope)
             /\ Occurrences(createScope(applied[i].LogScope), logScopes) > 0
             => Occurrences(createScope(applied[i].LogScope), logScopes') > 0]_vars
    /\ [][SnapshotApplied => \E k \in SnapshotAges(response.body) : k >= delivered]_vars

\* C18: LogHistory never holds two scopes with the same messageId.
C18_NoDuplicateMessageId ==
    \A i, j \in 1..Len(logScopes) :
        i # j => logScopes[i].messageId # logScopes[j].messageId

\* the next stream message is not the JSON text of an object
NextIsMalformed == delivered < Len(sent) /\ sent[delivered + 1].data \in MalformedData

\* C19: handling a stream message that is not the JSON text of an object leaves
\* the saga record, the observables and LogHistory as they were, and the record
\* stays one the retry button can read CurrentState from.
C19_MalformedIsAtomic ==
    /\ [][NextIsMalformed /\ delivered' = delivered + 1 =>
            UNCHANGED <<saga, vmLastError, vmCurrentState, logScopes>>]_vars
    /\ [](~ReadThrows(saga))

\* steps of the two engines
InputTaken == inputCount' = inputCount + 1

StreamApplied == delivered' = delivered + 1

SnapshotContinued == fetchPc = "awaiting" /\ fetchPc' = "done"

\* the pointer and the wheel leave the synchronisation state alone and the
\* scale is positive
InputsKeepSyncAndScalePositive ==
    /\ [][InputTaken =>
            UNCHANGED <<saga, vmLastError, vmCurrentState, logScopes, rectFill>>]_vars
    /\ [][StreamApplied => UNCHANGED <<transform, isPanning, startPoint>>]_vars
    /\ [](Less(Zero, transform.scale))

\* C20 as stated: pointer and wheel events never change the saga record, the
\* observables, LogHistory or the colouring; stream events and the snapshot
\* continuation never change the transform, the Idle/Panning state or the
\* anchor; the scale is always positive.
C20_EnginesIndependent ==
    /\ InputsKeepSyncAndScalePositive
    /\ [][SnapshotContinued => UNCHANGED <<transform, isPanning, startPoint>>]_vars

====
